---- MODULE Spec2Model ----
(***************************************************************************)
(* Model of src/lib.rs: the thread-local prime cache GlobalPrimes (wheel   *)
(* enumeration modulo 30 with trial division), the Primes iterator and the *)
(* public functions primes_upto, nth_prime, factorize, is_prime and        *)
(* clear_prime_cache.                                                      *)
(*                                                                         *)
(* All values stay far below 2^64 within the bounds below, so u64          *)
(* arithmetic is exact integer arithmetic here.  Vec indices are 0-based   *)
(* in the source; At(v, i) reads the source's v[i].                        *)
(***************************************************************************)
EXTENDS Integers, Sequences, FiniteSets, TLC

\* ------------------------------------------------------------------ bounds
\* largest argument of is_prime and primes_upto
MaxN == 50
\* largest argument of factorize
MaxFact == 30
\* largest argument of nth_prime
MaxK == 16
\* largest prime_index from which a Primes sequence is still advanced
MaxIdx == 4
\* largest arguments of nth_prime and is_prime among the Primes sequences
MaxIterK == 6
MaxIterN == 32
\* most factors factorize is let to push
MaxFactors == 6

\* --------------------------------------------------------------- constants
WHEEL_PRIMES == <<2, 3, 5>>
WHEEL_MODULUS == 30
WHEEL == <<1, 7, 11, 13, 17, 19, 23, 29>>

\* the two Primes sequences a caller holds
Seqs == {"a", "b"}

\* caller buffers handed to factorize
Bufs == {<<>>, <<7, 2>>}

VARIABLES
  primes,       \* GlobalPrimes.primes
  wheel_index,  \* GlobalPrimes.wheel_index
  wheel_base,   \* GlobalPrimes.wheel_base
  prime_index,  \* Primes.prime_index of each sequence
  yielded,      \* the values each sequence has returned since Primes::new
  fz,           \* the activation of factorize: pc, n, k, factors, prime_index
  result,       \* the last public call: op, its argument (arg, or seq for a
                \* Primes sequence) and what it returned (val, holds or list)
  panicked,     \* an out-of-range Vec read has unwound the thread
  borrow        \* the borrow state of the RefCell in GLOBAL_PRIMES

vars == <<primes, wheel_index, wheel_base, prime_index, yielded, fz, result, panicked,
          borrow>>

\* ----------------------------------------------------------------- helpers
\* v[i] of a Vec, i counted from 0
At(v, i) == v[i + 1]

InRange(v, i) == i >= 0 /\ i < Len(v)

\* the cache as one value
G == [primes |-> primes, wheel_index |-> wheel_index, wheel_base |-> wheel_base]

\* ------------------------------------------------------------ GlobalPrimes
reset_keep_base(g) ==
  [g EXCEPT !.primes = WHEEL_PRIMES, !.wheel_index = 1]

reset(g) ==
  [g EXCEPT !.primes = WHEEL_PRIMES, !.wheel_index = 1, !.wheel_base = 0]

new == reset([primes |-> <<>>, wheel_index |-> 0, wheel_base |-> 0])

last_prime(g) == g.primes[Len(g.primes)]

\* self.wheel_base + WHEEL[self.wheel_index]
candidate_of(g) == g.wheel_base + At(WHEEL, g.wheel_index)


\* the wrap taken one residue early, at WHEEL.len() - 1
advance_early_wrap(g) ==
  IF g.wheel_index + 1 = Len(WHEEL) - 1
    THEN [g EXCEPT !.wheel_index = 0, !.wheel_base = g.wheel_base + WHEEL_MODULUS]
    ELSE [g EXCEPT !.wheel_index = g.wheel_index + 1]

\* self.wheel_index += 1, wrapping into the next block of 30
advance(g) ==
  IF g.wheel_index + 1 = Len(WHEEL)
    THEN [g EXCEPT !.wheel_index = 0, !.wheel_base = g.wheel_base + WHEEL_MODULUS]
    ELSE [g EXCEPT !.wheel_index = g.wheel_index + 1]

\* self.primes.iter().all(|&prime| candidate % prime != 0)
no_divisor_never(ps, candidate) == TRUE

no_divisor(ps, candidate) ==
  \A i \in 1..Len(ps) : candidate % ps[i] # 0

RECURSIVE upto_loop_late_advance(_, _)
upto_loop_late_advance(g, max) ==
  LET candidate == candidate_of(g)
  IN IF no_divisor(g.primes, candidate)
       THEN LET h == [g EXCEPT !.primes = Append(g.primes, candidate)]
            IN IF candidate >= max THEN h ELSE upto_loop_late_advance(advance(h), max)
       ELSE upto_loop_late_advance(advance(g), max)


\* the loop left only on a prime strictly above max
RECURSIVE upto_loop_gt(_, _)
upto_loop_gt(g, max) ==
  LET candidate == candidate_of(g)
      a == advance(g)
  IN IF no_divisor(a.primes, candidate)
       THEN LET h == [a EXCEPT !.primes = Append(a.primes, candidate)]
            IN IF candidate > max THEN h ELSE upto_loop_gt(h, max)
       ELSE upto_loop_gt(a, max)

\* the loop left on the first candidate >= max, prime or not
RECURSIVE upto_loop_return_any(_, _)
upto_loop_return_any(g, max) ==
  LET candidate == candidate_of(g)
      a == advance(g)
      h == IF no_divisor(a.primes, candidate)
             THEN [a EXCEPT !.primes = Append(a.primes, candidate)]
             ELSE a
  IN IF candidate >= max THEN h ELSE upto_loop_return_any(h, max)

\* the loop of generate_upto
RECURSIVE upto_loop(_, _)
upto_loop(g, max) ==
  LET candidate == candidate_of(g)
      a == advance(g)
  IN IF no_divisor(a.primes, candidate)
       THEN LET h == [a EXCEPT !.primes = Append(a.primes, candidate)]
            IN IF candidate >= max THEN h ELSE upto_loop(h, max)
       ELSE upto_loop(a, max)


\* the fast path taken only for max strictly below the last prime
generate_upto_lt(g, max) ==
  IF max < last_prime(g) THEN g ELSE upto_loop(g, max)

generate_upto(g, max) ==
  IF max <= last_prime(g) THEN g ELSE upto_loop(g, max)


\* the loop of generate_count run while len <= count
RECURSIVE generate_count_le(_, _)
generate_count_le(g, count) ==
  IF Len(g.primes) <= count
    THEN LET candidate == candidate_of(g)
             a == advance(g)
         IN IF no_divisor(a.primes, candidate)
              THEN generate_count_le([a EXCEPT !.primes = Append(a.primes, candidate)], count)
              ELSE generate_count_le(a, count)
    ELSE g

\* the cache cut down to count primes when it holds more
RECURSIVE generate_count_truncate(_, _)
generate_count_truncate(g, count) ==
  IF Len(g.primes) < count
    THEN LET candidate == candidate_of(g)
             a == advance(g)
         IN IF no_divisor(a.primes, candidate)
              THEN generate_count_truncate([a EXCEPT !.primes = Append(a.primes, candidate)], count)
              ELSE generate_count_truncate(a, count)
    ELSE [g EXCEPT !.primes = SubSeq(g.primes, 1, count)]

RECURSIVE generate_count(_, _)
generate_count(g, count) ==
  IF Len(g.primes) < count
    THEN LET candidate == candidate_of(g)
             a == advance(g)
         IN IF no_divisor(a.primes, candidate)
              THEN generate_count([a EXCEPT !.primes = Append(a.primes, candidate)], count)
              ELSE generate_count(a, count)
    ELSE g

\* ------------------------------------------------------------------ Primes
\* the read of Primes::next guarded by `>` in place of `>=`
primes_next_gt(g, i) ==
  LET h == IF i > Len(g.primes)
             THEN generate_upto(g, (last_prime(g) * 3) \div 2)
             ELSE g
  IN [g |-> h,
      ok |-> InRange(h.primes, i),
      prime |-> IF InRange(h.primes, i) THEN At(h.primes, i) ELSE 0]


\* the growth target computed as last_prime * (3 / 2) in integer arithmetic
primes_next_int_ratio(g, i) ==
  LET h == IF i >= Len(g.primes)
             THEN generate_upto(g, last_prime(g) * (3 \div 2))
             ELSE g
  IN [g |-> h,
      ok |-> InRange(h.primes, i),
      prime |-> IF InRange(h.primes, i) THEN At(h.primes, i) ELSE 0]

\* Primes::next on the cache g with cursor i: the cache it leaves, whether
\* the read primes[i] is in range, and the value read
primes_next(g, i) ==
  LET h == IF i >= Len(g.primes)
             THEN generate_upto(g, (last_prime(g) * 3) \div 2)
             ELSE g
  IN [g |-> h,
      ok |-> InRange(h.primes, i),
      prime |-> IF InRange(h.primes, i) THEN At(h.primes, i) ELSE 0]

\* primes_upto(max).collect(): Primes::new().take_while(|&p| p <= max), driven
\* to its end from cursor i with acc collected so far
RECURSIVE take_while_lt(_, _, _, _)
take_while_lt(g, i, max, acc) ==
  LET r == primes_next(g, i)
  IN IF ~r.ok THEN [g |-> r.g, ok |-> FALSE, val |-> acc]
     ELSE IF r.prime < max THEN take_while_lt(r.g, i + 1, max, Append(acc, r.prime))
     ELSE [g |-> r.g, ok |-> TRUE, val |-> acc]

RECURSIVE take_while(_, _, _, _)
take_while(g, i, max, acc) ==
  LET r == primes_next(g, i)
  IN IF ~r.ok THEN [g |-> r.g, ok |-> FALSE, val |-> acc]
     ELSE IF r.prime <= max THEN take_while(r.g, i + 1, max, Append(acc, r.prime))
     ELSE [g |-> r.g, ok |-> TRUE, val |-> acc]

primes_upto(g, max) == take_while(g, 0, max, <<>>)

\* nth_prime(k) on the cache g
nth_prime_last(g, k) ==
  LET h == generate_count(g, k + 1)
  IN [g |-> h, ok |-> InRange(h.primes, k), val |-> last_prime(h)]

nth_prime_short(g, k) ==
  LET h == generate_count(g, k)
  IN [g |-> h,
      ok |-> InRange(h.primes, k),
      val |-> IF InRange(h.primes, k) THEN At(h.primes, k) ELSE 0]

nth_prime(g, k) ==
  LET h == generate_count(g, k + 1)
  IN [g |-> h,
      ok |-> InRange(h.primes, k),
      val |-> IF InRange(h.primes, k) THEN At(h.primes, k) ELSE 0]

\* slice::binary_search(&n).is_ok() on the 0-based range [lo, hi) of v
RECURSIVE binary_search(_, _, _, _)
binary_search(v, n, lo, hi) ==
  IF lo >= hi THEN FALSE
  ELSE LET mid == lo + ((hi - lo) \div 2)
       IN IF At(v, mid) = n THEN TRUE
          ELSE IF At(v, mid) < n THEN binary_search(v, n, mid + 1, hi)
          ELSE binary_search(v, n, lo, mid)

\* is_prime(n) on the cache g
is_prime_no_extend(g, n) ==
  [g |-> g, val |-> binary_search(g.primes, n, 0, Len(g.primes))]

is_prime(g, n) ==
  LET h == generate_upto(g, n)
  IN [g |-> h, val |-> binary_search(h.primes, n, 0, Len(h.primes))]

\* no activation of factorize
Idle == [pc |-> "idle", n |-> 0, k |-> 0, factors |-> <<>>, prime_index |-> 0, p |-> 0]

\* factorize: `let mut k = n; factors.clear();` and the fresh primes()
factorize_begin_no_clear(n, factors) ==
  [pc |-> "for", n |-> n, k |-> n, factors |-> factors, prime_index |-> 0, p |-> 0]

factorize_begin(n, factors) ==
  [pc |-> "for", n |-> n, k |-> n, factors |-> <<>>, prime_index |-> 0, p |-> 0]


\* factorize returning without its trailing push
factorize_end_no_push(n, factors) == factors

\* factorize after its for loop: `if factors.is_empty() { factors.push(n) }`
factorize_end(n, factors) ==
  IF factors = <<>> THEN <<n>> ELSE factors

\* factorize(n, _) run to its return on the cache g, for the n it returns on:
\* the for loop from cursor i with residue k
RECURSIVE factorize_while(_, _, _)
factorize_while(k, p, factors) ==
  IF k % p = 0
    THEN factorize_while(k \div p, p, Append(factors, p))
    ELSE [k |-> k, factors |-> factors]

RECURSIVE factorize_for(_, _, _, _, _)
factorize_for(g, i, n, k, factors) ==
  LET r == primes_next(g, i)
      w == factorize_while(k, r.prime, factors)
  IN IF ~r.ok THEN [g |-> r.g, ok |-> FALSE, val |-> factors]
     ELSE IF w.k = 1 THEN [g |-> r.g, ok |-> TRUE, val |-> factorize_end(n, w.factors)]
     ELSE factorize_for(r.g, i + 1, n, w.k, w.factors)

factorize(g, n) == factorize_for(g, 0, n, n, <<>>)


\* RefCell::borrow_mut: refused (a panic) unless the cell is unused
borrow_mut(flag) ==
  [ok |-> flag = "unused", flag |-> IF flag = "unused" THEN "writing" ELSE flag]

\* a RefMut that outlives the closure it was taken in
ref_mut_kept(flag) == flag

\* the RefMut goes out of scope at the end of the closure
drop_ref_mut(flag) == "unused"

Init ==
  /\ primes = new.primes
  /\ wheel_index = new.wheel_index
  /\ wheel_base = new.wheel_base
  /\ prime_index = [s \in Seqs |-> 0]
  /\ yielded = [s \in Seqs |-> <<>>]
  /\ fz = Idle
  /\ result = [op |-> "none"]
  /\ panicked = FALSE
  /\ borrow = "unused"

\* no call is in progress and the thread is alive
Ready == ~panicked /\ fz.pc = "idle"

SetCache(h) ==
  /\ primes' = h.primes
  /\ wheel_index' = h.wheel_index
  /\ wheel_base' = h.wheel_base


\* GLOBAL_PRIMES.with(|global_primes| { let mut global_primes =
\* global_primes.borrow_mut(); Body }): Body runs under the exclusive borrow,
\* which is given back when the closure ends, also by a panic in Body
WithBorrowMut(Body) ==
  IF borrow_mut(borrow).ok
    THEN /\ Body
         /\ borrow' = drop_ref_mut(borrow_mut(borrow).flag)
    ELSE /\ panicked' = TRUE
         /\ result' = [op |-> "already_borrowed"]
         /\ UNCHANGED <<primes, wheel_index, wheel_base, prime_index, yielded, fz, borrow>>

\* Primes::new / primes()
PrimesNew(s) ==
  /\ Ready
  /\ prime_index' = [prime_index EXCEPT ![s] = 0]
  /\ yielded' = [yielded EXCEPT ![s] = <<>>]
  /\ result' = [op |-> "primes", seq |-> s]
  /\ UNCHANGED <<primes, wheel_index, wheel_base, fz, panicked, borrow>>

\* <Primes as Iterator>::next
PrimesNext(s) ==
  /\ Ready
  /\ prime_index[s] <= MaxIdx
  /\ WithBorrowMut(
       LET r == primes_next(G, prime_index[s])
       IN /\ SetCache(r.g)
          /\ IF r.ok
               THEN /\ prime_index' = [prime_index EXCEPT ![s] = @ + 1]
                    /\ yielded' = [yielded EXCEPT ![s] = Append(@, r.prime)]
                    /\ result' = [op |-> "next", seq |-> s, val |-> r.prime]
                    /\ UNCHANGED panicked
               ELSE /\ panicked' = TRUE
                    /\ result' = [op |-> "next", seq |-> s]
                    /\ UNCHANGED <<prime_index, yielded>>
          /\ UNCHANGED fz)

\* primes_upto(max) collected to its end
PrimesUpto(max) ==
  /\ Ready
  /\ WithBorrowMut(
       LET r == primes_upto(G, max)
       IN /\ SetCache(r.g)
          /\ panicked' = ~r.ok
          /\ result' = [op |-> "primes_upto", arg |-> max, list |-> r.val]
          /\ UNCHANGED <<prime_index, yielded, fz>>)

NthPrime(k) ==
  /\ Ready
  /\ WithBorrowMut(
       LET r == nth_prime(G, k)
       IN /\ SetCache(r.g)
          /\ panicked' = ~r.ok
          /\ result' = [op |-> "nth_prime", arg |-> k, val |-> r.val]
          /\ UNCHANGED <<prime_index, yielded, fz>>)

IsPrime(n) ==
  /\ Ready
  /\ WithBorrowMut(
       LET r == is_prime(G, n)
       IN /\ SetCache(r.g)
          /\ result' = [op |-> "is_prime", arg |-> n, holds |-> r.val]
          /\ UNCHANGED <<prime_index, yielded, fz, panicked>>)

ClearPrimeCache ==
  /\ Ready
  /\ WithBorrowMut(
       /\ SetCache(reset(G))
       /\ result' = [op |-> "clear_prime_cache"]
       /\ UNCHANGED <<prime_index, yielded, fz, panicked>>)

\* factorize(n, factors) is entered
FactorizeCall(n, factors) ==
  /\ Ready
  /\ fz' = factorize_begin(n, factors)
  /\ result' = [op |-> "factorize", arg |-> n]
  /\ UNCHANGED <<primes, wheel_index, wheel_base, prime_index, yielded, panicked, borrow>>

\* `for p in primes()`: the next prime is drawn
FactorizeFor ==
  /\ ~panicked
  /\ fz.pc = "for"
  /\ fz.prime_index >= Len(primes) => last_prime(G) <= MaxN
  /\ WithBorrowMut(
       LET r == primes_next(G, fz.prime_index)
       IN /\ SetCache(r.g)
          /\ panicked' = ~r.ok
          /\ fz' = IF r.ok
                     THEN [fz EXCEPT !.pc = "while", !.p = r.prime,
                                     !.prime_index = @ + 1]
                     ELSE fz
          /\ UNCHANGED <<prime_index, yielded, result>>)

\* `while k % p == 0 { factors.push(p); k /= p; }`: one turn
FactorizeWhile ==
  /\ ~panicked
  /\ fz.pc = "while"
  /\ fz.k % fz.p = 0
  /\ Len(fz.factors) < MaxFactors
  /\ fz' = [fz EXCEPT !.factors = Append(@, fz.p), !.k = @ \div fz.p]
  /\ UNCHANGED <<primes, wheel_index, wheel_base, prime_index, yielded, result, panicked,
                 borrow>>

\* the while loop is left with k # 1: the for loop goes on
FactorizeContinue ==
  /\ ~panicked
  /\ fz.pc = "while"
  /\ fz.k % fz.p # 0
  /\ fz.k # 1
  /\ fz' = [fz EXCEPT !.pc = "for"]
  /\ UNCHANGED <<primes, wheel_index, wheel_base, prime_index, yielded, result, panicked,
                 borrow>>

\* `if k == 1 { break; }`, the trailing push of n, and the return
FactorizeReturn ==
  /\ ~panicked
  /\ fz.pc = "while"
  /\ fz.k % fz.p # 0
  /\ fz.k = 1
  /\ result' = [op |-> "factorize", arg |-> fz.n,
                list |-> factorize_end(fz.n, fz.factors)]
  /\ fz' = Idle
  /\ UNCHANGED <<primes, wheel_index, wheel_base, prime_index, yielded, panicked, borrow>>

\* The calls that return a value computed from the cache, and factorize.
Next ==
  \/ \E max \in 0..MaxN : PrimesUpto(max)
  \/ \E k \in 0..MaxK : NthPrime(k)
  \/ \E n \in 0..MaxN : IsPrime(n)
  \/ ClearPrimeCache
  \/ \E n \in 0..MaxFact, factors \in Bufs : FactorizeCall(n, factors)
  \/ FactorizeFor
  \/ FactorizeWhile
  \/ FactorizeContinue
  \/ FactorizeReturn

Spec == Init /\ [][Next]_vars

\* Two Primes sequences advanced in any order, among calls that extend or
\* reset the cache under them.
NextIter ==
  \/ \E s \in Seqs : PrimesNew(s)
  \/ \E s \in Seqs : PrimesNext(s)
  \/ \E k \in 0..MaxIterK : NthPrime(k)
  \/ \E n \in 0..MaxIterN : IsPrime(n)
  \/ ClearPrimeCache

SpecIter == Init /\ [][NextIter]_vars
\* The same callers when clear_prime_cache is never called.
NextNoClear ==
  \/ \E s \in Seqs : PrimesNew(s)
  \/ \E s \in Seqs : PrimesNext(s)
  \/ \E k \in 0..MaxIterK : NthPrime(k)
  \/ \E n \in 0..MaxIterN : IsPrime(n)

SpecNoClear == Init /\ [][NextNoClear]_vars

\* a step of the running factorize; at most one of the four is enabled
FactorizeStep ==
  FactorizeFor \/ FactorizeWhile \/ FactorizeContinue \/ FactorizeReturn

\* factorize called among calls that grow the cache by count or reset it
NextFactorize ==
  \/ \E k \in 0..MaxK : NthPrime(k)
  \/ ClearPrimeCache
  \/ \E n \in 0..MaxFact, factors \in Bufs : FactorizeCall(n, factors)
  \/ FactorizeStep

\* factorize runs on the caller's thread: once entered, it keeps executing.
FairSpec == Init /\ [][NextFactorize]_vars /\ WF_vars(FactorizeStep)

\* ------------------------------------------------------------- references
\* what the claims compare the program with: the primes by their definition
\* (an integer >= 2 with no divisor other than 1 and itself), up to RefMax
RefMax == 120

PrimeSet == {n \in 2..RefMax : \A d \in 2..(n - 1) : n % d # 0}

\* the (k+1)-th prime in ascending order
NthPrimeRef(k) == CHOOSE p \in PrimeSet : Cardinality({q \in PrimeSet : q < p}) = k

Elems(v) == {v[i] : i \in 1..Len(v)}

StrictlyAscending(v) == \A i \in 1..(Len(v) - 1) : v[i] < v[i + 1]

Nondecreasing(v) == \A i \in 1..(Len(v) - 1) : v[i] <= v[i + 1]

RECURSIVE Product(_)
Product(v) == IF v = <<>> THEN 1 ELSE v[1] * Product(Tail(v))

\* factorize has returned
Returned == fz.pc = "idle" /\ result.op = "factorize"

\* ------------------------------------------------------------------ claims
\* C1: collecting primes_upto(M), from any cache state and with no
\* clear_prime_cache during the traversal, yields exactly the primes of [2, M]
\* in strictly ascending order, and the empty sequence for M in {0, 1}.
C1_PrimesUptoExact ==
  result.op = "primes_upto" =>
    /\ ~panicked
    /\ StrictlyAscending(result.list)
    /\ Elems(result.list) = {p \in PrimeSet : p <= result.arg}
    /\ (result.arg \in {0, 1} => result.list = <<>>)

\* primes_upto(30) collected on a cache that already held primes beyond 30
C1_Witness ==
  /\ result.op = "primes_upto"
  /\ result.arg = 30
  /\ result.list = <<2, 3, 5, 7, 11, 13, 17, 19, 23, 29>>
  /\ last_prime(G) = 53

\* C2: for every n >= 2, whatever the buffer held and whatever the cache
\* state, factorize(n, buf) terminates and leaves buf holding only primes, in
\* nondecreasing order, whose product is n.
C2_FactorizeTerminatesExact ==
  /\ [](Returned /\ result.arg >= 2 =>
          /\ Elems(result.list) \subseteq PrimeSet
          /\ Nondecreasing(result.list)
          /\ Product(result.list) = result.arg)
  /\ (fz.pc # "idle" /\ fz.n >= 2) ~> Returned

\* factorize(12) has returned [2, 2, 3]
C2_Witness ==
  /\ Returned
  /\ result.arg = 12
  /\ result.list = <<2, 2, 3>>

\* C3: is_prime(n) is true iff n is prime, whether the cache's last prime is
\* below, equal to or above n; false for 0 and 1, true for 2, 3 and 5.
C3_IsPrimeExact ==
  result.op = "is_prime" =>
    /\ result.holds = (result.arg \in PrimeSet)
    /\ (result.arg \in {0, 1} => result.holds = FALSE)
    /\ (result.arg \in {2, 3, 5} => result.holds = TRUE)

\* is_prime(49) has answered false: 49 is coprime to 30, so the wheel offers it
C3_Witness ==
  /\ result.op = "is_prime"
  /\ result.arg = 49
  /\ result.holds = FALSE

\* the (k+1)-th value of a fresh primes() sequence driven on the cache g
RECURSIVE nth_of_primes(_, _, _)
nth_of_primes(g, i, k) ==
  LET r == primes_next(g, i)
  IN IF ~r.ok THEN 0
     ELSE IF i = k THEN r.prime
     ELSE nth_of_primes(r.g, i + 1, k)

\* C4: nth_prime(k) returns the (k+1)-th prime in ascending order, which is
\* also the (k+1)-th value a fresh primes() sequence yields.
C4_NthPrimeExact ==
  result.op = "nth_prime" =>
    /\ ~panicked
    /\ result.val = NthPrimeRef(result.arg)
    /\ result.val = nth_of_primes(G, 0, result.arg)
    /\ result.val = nth_of_primes(new, 0, result.arg)

\* nth_prime(15) has returned 53, past the composite candidate 49
C4_Witness ==
  /\ result.op = "nth_prime"
  /\ result.arg = 15
  /\ result.val = 53

\* C5: with no clear_prime_cache, two Primes sequences advanced in any
\* interleaving, also with nth_prime and is_prime calls, never fail and each
\* yields the primes in order: its i-th value is the (i+1)-th prime.
C5_SequencesIndependent ==
  /\ ~panicked
  /\ \A s \in Seqs :
       /\ Len(yielded[s]) = prime_index[s]
       /\ \A i \in 1..Len(yielded[s]) : yielded[s][i] = NthPrimeRef(i - 1)

\* the two sequences at different positions, one of them having extended the
\* cache the other one reads
C5_Witness ==
  /\ prime_index["a"] = 5
  /\ prime_index["b"] = 2
  /\ yielded["a"] = <<2, 3, 5, 7, 11>>
  /\ yielded["b"] = <<2, 3>>

\* C6: a Primes sequence whose prime_index exceeds the cache length (after a
\* clear_prime_cache) extends the cache on its next advance and returns the
\* (prime_index+1)-th prime, without an out-of-range read.
C6_NextBeyondCacheReturns ==
  result.op = "next" =>
    /\ ~panicked
    /\ result.val = NthPrimeRef(prime_index[result.seq] - 1)

\* C7: the result of nth_prime, is_prime, primes_upto and factorize is the one
\* the same call gives on a fresh scope, whatever calls (clear_prime_cache
\* among them) shaped the cache before.
C7_ResultsIgnoreHistory ==
  /\ result.op = "nth_prime" =>
       result.val = nth_prime(new, result.arg).val
  /\ result.op = "is_prime" =>
       result.holds = is_prime(new, result.arg).val
  /\ result.op = "primes_upto" =>
       result.list = primes_upto(new, result.arg).val
  /\ Returned =>
       result.list = factorize(new, result.arg).val

\* nth_prime(3) answered on a cache that other calls had grown far beyond it
C7_Witness ==
  /\ result.op = "nth_prime"
  /\ result.arg = 3
  /\ result.val = 7
  /\ Len(primes) > 10

Seed == [primes |-> <<2, 3, 5>>, wheel_index |-> 1, wheel_base |-> 0]

\* C8: clear_prime_cache leaves exactly primes = [2, 3, 5], wheel_index = 1,
\* wheel_base = 0 from every cache state, which is the state created on first
\* use, and a second reset changes nothing.
C8_ClearRestoresSeed ==
  /\ reset(G) = Seed
  /\ new = Seed
  /\ reset(reset(G)) = reset(G)
  /\ result.op = "clear_prime_cache" => G = Seed

\* the cache was cleared under a sequence that had advanced to index 5
C8_Witness ==
  /\ result.op = "clear_prime_cache"
  /\ prime_index["a"] = 5
  /\ Len(primes) = 3

\* C9: primes is strictly ascending, begins with 2, 3, 5 and is exactly the
\* list of all primes up to its last element.
C9_CacheIsPrimePrefix ==
  /\ StrictlyAscending(primes)
  /\ Len(primes) >= 3
  /\ SubSeq(primes, 1, 3) = <<2, 3, 5>>
  /\ Elems(primes) = {p \in PrimeSet : p <= last_prime(G)}

\* the cache has grown past 49, the first composite the wheel offers
C9_Witness ==
  /\ last_prime(G) = 53
  /\ Len(primes) = 16

\* C10: the cursor's candidate is greater than every cached prime, and every
\* prime below it is cached.
C10_CursorIsNextUntested ==
  LET c == candidate_of(G)
  IN /\ \A i \in 1..Len(primes) : primes[i] < c
     /\ \A p \in PrimeSet : p < c => p \in Elems(primes)
     /\ wheel_index \in 0..(Len(WHEEL) - 1)

\* the cursor stands at 49 in the second turn of the wheel
C10_Witness ==
  /\ candidate_of(G) = 49
  /\ wheel_base = 30
  /\ last_prime(G) = 47

\* an integer the modulo-30 wheel must offer
Coprime30(c) == c % 2 # 0 /\ c % 3 # 0 /\ c % 5 # 0

\* the cursor after j advances from g
RECURSIVE nth_cursor(_, _)
nth_cursor(g, j) == IF j = 0 THEN g ELSE nth_cursor(advance(g), j - 1)

\* how many advances from the seed cursor C11 follows
WheelRun == 20

\* C11: from the seed cursor the successive candidates are exactly the
\* integers >= 7 coprime to 30, in strictly increasing order; wheel_index stays
\* in [0, 8) and wheel_base a multiple of 30, the index wrapping from 7 to 0
\* exactly when the base grows by 30.
C11_WheelEnumeratesCoprimes ==
  LET a == advance(G)
      c == candidate_of(G)
  IN /\ candidate_of(new) = 7
     /\ wheel_index \in 0..(Len(WHEEL) - 1)
     /\ wheel_base % WHEEL_MODULUS = 0
     /\ c >= 7
     /\ Coprime30(c)
     /\ a.wheel_index \in 0..(Len(WHEEL) - 1)
     /\ candidate_of(a) > c
     /\ Coprime30(candidate_of(a))
     /\ \A x \in (c + 1)..(candidate_of(a) - 1) : ~Coprime30(x)
     /\ IF wheel_index = Len(WHEEL) - 1
          THEN a.wheel_index = 0 /\ a.wheel_base = wheel_base + WHEEL_MODULUS
          ELSE a.wheel_index = wheel_index + 1 /\ a.wheel_base = wheel_base
     /\ LET last == candidate_of(nth_cursor(new, WheelRun))
        IN {candidate_of(nth_cursor(new, j)) : j \in 0..WheelRun}
             = {x \in 7..last : Coprime30(x)}

\* the cursor has wrapped twice: it stands at 61 = 60 + WHEEL[0]
C11_Witness ==
  /\ wheel_base = 60
  /\ wheel_index = 0

\* the smallest prime >= m
PrimeFrom(m) == CHOOSE p \in PrimeSet : p >= m /\ \A q \in PrimeSet : q >= m => p <= q

\* C12: after generate_upto(M) the largest cached prime is >= M; when it was
\* < M on entry, the last cached prime is then the smallest prime >= M and the
\* only cached prime >= M.
C12_GenerateUptoStopsAtFirst ==
  \A m \in 0..MaxN :
    LET h == generate_upto(G, m)
    IN /\ last_prime(h) >= m
       /\ last_prime(G) < m =>
            /\ last_prime(h) = PrimeFrom(m)
            /\ {i \in 1..Len(h.primes) : h.primes[i] >= m} = {Len(h.primes)}

\* is_prime(48) has run generate_upto(48) past the composite 49 up to 53
C12_Witness ==
  /\ result.op = "is_prime"
  /\ result.arg = 48
  /\ last_prime(G) = 53

\* C13: generate_upto(M) with M <= the last cached prime changes neither
\* primes nor the cursor; in the seed state this covers every M in 0..5.
C13_GenerateUptoFastPath ==
  /\ \A m \in 0..MaxN : m <= last_prime(G) => generate_upto(G, m) = G
  /\ \A m \in 0..5 : generate_upto(new, m) = new

\* is_prime(29) has run generate_upto(29) on a cache whose last prime is 29
C13_Witness ==
  /\ result.op = "is_prime"
  /\ result.arg = 29
  /\ last_prime(G) = 29

\* C14: after generate_count(K) on a cache of L primes the cache holds exactly
\* max(L, K) primes, and for K <= L the list and the cursor are unchanged.
C14_GenerateCountExact ==
  \A count \in 0..(MaxK + 1) :
    LET h == generate_count(G, count)
        L == Len(primes)
    IN /\ Len(h.primes) = IF L >= count THEN L ELSE count
       /\ count <= L => h = G

\* nth_prime(16) has run generate_count(17): the cache holds exactly 17 primes
C14_Witness ==
  /\ result.op = "nth_prime"
  /\ result.arg = 16
  /\ Len(primes) = 17

IsPrefix(v, w) == Len(v) <= Len(w) /\ SubSeq(w, 1, Len(v)) = v

\* C15: every step other than clear_prime_cache leaves the previous list as a
\* prefix of the new one and never lowers the cursor's candidate.
C15_AppendOnlyBetweenResets ==
  [][result'.op # "clear_prime_cache" =>
       /\ IsPrefix(primes, primes')
       /\ wheel_base' + At(WHEEL, wheel_index') >= candidate_of(G)]_vars

\* the running factorize has drawn 7 from a cache its own advance extended
C15_Witness ==
  /\ fz.pc = "while"
  /\ fz.p = 7
  /\ primes = <<2, 3, 5, 7>>

Running == fz.pc # "idle"

\* C17 as stated: for n in {0, 1} the test `k % p == 0` fails for every prime
\* visited, no factor is appended and the residue remains n.
C17_NeverDividesFor0And1 ==
  (Running /\ fz.n \in {0, 1}) =>
    /\ fz.factors = <<>>
    /\ fz.k = fz.n
    /\ (fz.pc = "while" => fz.k % fz.p # 0)

\* C17 amended: for n = 1 the test fails for the prime visited, nothing is
\* appended and the residue remains 1; for n = 0 the test succeeds for the
\* first prime, 2, on every turn: only 2s are appended and the residue
\* remains 0.
C17_DividesOnlyFor0 ==
  /\ (Running /\ fz.n = 1) =>
       /\ fz.factors = <<>>
       /\ fz.k = 1
       /\ (fz.pc = "while" => fz.k % fz.p # 0)
  /\ (Running /\ fz.n = 0) =>
       /\ fz.k = 0
       /\ Elems(fz.factors) \subseteq {2}
       /\ (fz.pc = "while" => fz.p = 2 /\ fz.k % fz.p = 0)

\* factorize(1) has drawn 2 and stands at the test with nothing appended
C17_Witness ==
  /\ fz.pc = "while"
  /\ fz.n = 1
  /\ fz.p = 2
  /\ fz.factors = <<>>

\* C18 as stated: for n in {0, 1} factorize never returns, so the trailing
\* push of n is never executed.
C18_NeverReturnsFor0And1 ==
  ~(Returned /\ result.arg \in {0, 1})

\* C18 amended: factorize(0) never returns (its while loop never exits, so
\* neither the break nor the trailing push is reached); factorize(1) returns
\* after the first prime with [1], pushed by the trailing branch.
C18_ReturnsFor1NotFor0 ==
  /\ [][(Running /\ fz.n = 0) => (fz'.pc # "idle" /\ fz'.n = 0)]_vars
  /\ []((Running /\ fz.n = 0 /\ fz.pc = "while") => fz.k % fz.p = 0)
  /\ []((Returned /\ result.arg \in {0, 1}) => (result.arg = 1 /\ result.list = <<1>>))
  /\ (Running /\ fz.n = 1) ~> (Returned /\ result.arg = 1 /\ result.list = <<1>>)

\* factorize(1) has returned [1]
C18_Witness ==
  /\ Returned
  /\ result.arg = 1
  /\ result.list = <<1>>

\* C19: without clear_prime_cache every Primes sequence has prime_index <=
\* the cache length; an advance at prime_index = length asks generate_upto for
\* (last_prime * 3) / 2 > last_prime, which appends at least one prime, so the
\* read primes[prime_index] is in range.
C19_CursorWithinCache ==
  LET target == (last_prime(G) * 3) \div 2
      r == primes_next(G, Len(primes))
  IN /\ ~panicked
     /\ \A s \in Seqs : prime_index[s] <= Len(primes)
     /\ last_prime(G) >= 5
     /\ target > last_prime(G)
     /\ Len(generate_upto(G, target).primes) > Len(primes)
     /\ Len(r.g.primes) > Len(primes)
     /\ r.ok

\* sequence a has just read index 4 of a cache its advance extended to 5
C19_Witness ==
  /\ result.op = "next"
  /\ result.seq = "a"
  /\ result.val = 11
  /\ prime_index["a"] = 5
  /\ Len(primes) = 5

\* the smallest integer coprime to 30 above m
CoprimeAbove(m) ==
  CHOOSE c \in (m + 1)..(m + WHEEL_MODULUS) :
    Coprime30(c) /\ \A x \in (m + 1)..(c - 1) : ~Coprime30(x)

\* C20: the cache state is a function of the number of cached primes: the
\* cursor's candidate is the smallest integer coprime to 30 above the last
\* cached prime (7 in the seed state), so the state is the one a new cache
\* reaches by generate_count of the same number of primes.
C20_StateDeterminedByCount ==
  /\ candidate_of(G) = CoprimeAbove(last_prime(G))
  /\ candidate_of(new) = 7
  /\ G = generate_count(new, Len(primes))
  /\ \A m \in 0..MaxN : last_prime(G) = PrimeFrom(m) => G = generate_upto(new, m)

\* is_prime(47) has left a cache of 15 primes with the cursor at 49
C20_Witness ==
  /\ result.op = "is_prime"
  /\ result.arg = 47
  /\ Len(primes) = 15
  /\ candidate_of(G) = 49
====
